---------------------------- MODULE Spec2Model ----------------------------
(***************************************************************************)
(* State-machine model of the RAG demo: the library functions of           *)
(* rag_app.py (load_webpage, split_documents, create_vectorstore,          *)
(* setup_rag_chain), the console driver rag_app.main and the Streamlit     *)
(* driver streamlit_app.main, over one on-disk Chroma directory.           *)
(*                                                                         *)
(* A Python str is a sequence of one-character strings, so that strip()    *)
(* and lower() are computed, not assumed.  The outcome of every call into  *)
(* a third-party library (network fetch, embedding, prompt hub, LLM) is    *)
(* chosen by the environment.                                              *)
(***************************************************************************)
EXTENDS Naturals, Integers, Sequences, FiniteSets, TLC

(* ------------------------------ bounds -------------------------------- *)

\* Store handles (Chroma objects) built in one behaviour.
MaxStores == 3

\* The same, in a behaviour of two processes.
MaxSharedStores == 2

\* split_documents on its own: texts without a separator up to MaxTextLen
\* characters, and texts of up to MaxWords words.
MaxTextLen == 5000
MaxWords == 3

(* ------------------------- Python str helpers -------------------------- *)

\* The result of a call: the value returned, or the fact that it raised.
Returned(v) == [raised |-> FALSE, value |-> v]
Raised == [raised |-> TRUE, value |-> <<>>]

\* str.lower() on one character.
LowerChar(c) ==
    CASE c = "Q" -> "q"
      [] c = "N" -> "n"
      [] OTHER -> c

\* str.lower()
Lower(s) == [i \in 1..Len(s) |-> LowerChar(s[i])]

RECURSIVE LStrip(_)
LStrip(s) ==
    IF s # <<>> /\ Head(s) = " " THEN LStrip(Tail(s)) ELSE s

RECURSIVE RStrip(_)
RStrip(s) ==
    IF s # <<>> /\ s[Len(s)] = " " THEN RStrip(SubSeq(s, 1, Len(s) - 1)) ELSE s

\* str.strip()
Strip(s) == RStrip(LStrip(s))

CMD_QUIT == <<"q", "u", "i", "t">>
CMD_NEW == <<"n", "e", "w">>

\* rag_app.py 183, 196: the sentinel test is made on the lower-cased input.
IsQuitCaseSensitive(s) == s = CMD_QUIT

IsQuit(s) == Lower(s) = CMD_QUIT
IsNew(s) == Lower(s) = CMD_NEW

(* ------------------------------ the web -------------------------------- *)

URL_A == <<"a">>
URL_B == <<"b">>
URL_BAD == <<"x">>
EMPTY == <<>>

\* What a line typed at a console prompt can be.
ConsoleInputs ==
    { CMD_QUIT, <<" ", "Q", "u", "i", "t", " ">>, <<"q", "u", "i", "t", "s">>,
      CMD_NEW, <<"N", "e", "w", " ">>,
      URL_A, <<" ", "b">>, URL_BAD, EMPTY }

\* What the UI's text fields can hold.
UrlValues == {EMPTY, URL_A, URL_B, URL_BAD}
QUESTION == <<"w", "?">>
QuestionValues == {EMPTY, QUESTION}

\* A text is given by the lengths of its words, which single blanks
\* separate; one word is a text with no separator in it.
RECURSIVE SumOf(_)
SumOf(ws) == IF ws = <<>> THEN 0 ELSE Head(ws) + SumOf(Tail(ws))

\* len(text)
TextLen(ws) == IF ws = <<>> THEN 0 ELSE SumOf(ws) + Len(ws) - 1

Document(src, ws) == [src |-> src, len |-> TextLen(ws), words |-> ws]

\* The pages that exist: url -> the documents WebBaseLoader.load() returns
\* (one Document per url: its source and its text).
PageWords(url) == IF url = URL_A THEN <<1500>> ELSE <<2600>>
PageLen(url) == TextLen(PageWords(url))
Fetchable == {URL_A, URL_B}
Web(url) == << Document(url, PageWords(url)) >>

(* ---------------------------- load_webpage ----------------------------- *)

\* Where the body of load_webpage's try block fails, if it does.
LoadEnvs == {"none", "ctor", "fetch", "print"}

\* rag_app.py 36-43: the try block; Raised when a statement of it raises.
LoadBody(url, env) ==
    IF env = "ctor" THEN Raised                       \* WebBaseLoader(url)
    ELSE IF env = "fetch" \/ url \notin Fetchable THEN Raised  \* loader.load()
    ELSE IF env = "print" THEN Raised                 \* print(doc.page_content)
    ELSE Returned(Web(url))

\* The function without its except clause.
load_webpage_uncaught(url, env) == LoadBody(url, env)

\* rag_app.py 21-46: "except Exception: return []"
load_webpage(url, env) ==
    LET r == LoadBody(url, env) IN
        IF r.raised THEN Returned(<<>>) ELSE r

\* rag_app.py 188, streamlit_app.py 138: "if documents:"
AlwaysTrue(documents) == TRUE

HasDocuments(documents) == documents # <<>>

(* --------------------------- split_documents --------------------------- *)

ChunkSize == 1000
ChunkOverlap == 200

\* Windows that start a whole ChunkSize after the previous one.
WindowsNoOverlap(src, lo, len) ==
    [i \in 1..((len - lo + ChunkSize - 1) \div ChunkSize) |->
        [src |-> src, lo |-> lo + (i - 1) * ChunkSize,
         hi |-> IF lo + i * ChunkSize < len THEN lo + i * ChunkSize ELSE len]]

\* The windows of one text of length len, from offset lo on: each at most
\* ChunkSize long, the next one starting ChunkOverlap before the end.
RECURSIVE Windows(_, _, _)
Windows(src, lo, len) ==
    IF len <= lo THEN <<>>
    ELSE IF lo + ChunkSize >= len
         THEN << [src |-> src, lo |-> lo, hi |-> len] >>
         ELSE << [src |-> src, lo |-> lo, hi |-> lo + ChunkSize] >>
              \o Windows(src, lo + ChunkSize - ChunkOverlap, len)

\* The text cut at its blanks, each blank kept at the head of the piece
\* that follows it (keep_separator).
RECURSIVE Pieces(_, _, _, _)
Pieces(src, ws, lo, first) ==
    IF ws = <<>> THEN <<>>
    ELSE LET n == Head(ws) + (IF first THEN 0 ELSE 1) IN
             << [src |-> src, lo |-> lo, hi |-> lo + n] >>
             \o Pieces(src, Tail(ws), lo + n, FALSE)

RECURSIVE PiecesLen(_)
PiecesLen(cur) ==
    IF cur = <<>> THEN 0 ELSE (Head(cur).hi - Head(cur).lo) + PiecesLen(Tail(cur))

\* _merge_splits, when a chunk was emitted: drop pieces from the front while
\* more than ChunkOverlap is kept or the next piece of length n does not fit.
RECURSIVE DropFront(_, _)
DropFront(cur, n) ==
    IF PiecesLen(cur) > ChunkOverlap
         \/ (PiecesLen(cur) + n > ChunkSize /\ PiecesLen(cur) > 0)
    THEN DropFront(Tail(cur), n)
    ELSE cur

Joined(cur) == [src |-> cur[1].src, lo |-> cur[1].lo, hi |-> cur[Len(cur)].hi]

\* _merge_splits: pieces are joined into chunks of at most ChunkSize.
RECURSIVE Merge(_, _)
Merge(pieces, cur) ==
    IF pieces = <<>>
    THEN IF cur = <<>> THEN <<>> ELSE << Joined(cur) >>
    ELSE LET d == Head(pieces)
             n == d.hi - d.lo
         IN  IF PiecesLen(cur) + n > ChunkSize /\ cur # <<>>
             THEN << Joined(cur) >>
                  \o Merge(Tail(pieces), Append(DropFront(cur, n), d))
             ELSE Merge(Tail(pieces), Append(cur, d))

\* _split_text over the pieces: those shorter than ChunkSize are merged, a
\* longer one is cut by characters.
RECURSIVE Gather(_, _)
Gather(pieces, good) ==
    IF pieces = <<>> THEN Merge(good, <<>>)
    ELSE LET p == Head(pieces) IN
             IF p.hi - p.lo < ChunkSize
             THEN Gather(Tail(pieces), Append(good, p))
             ELSE Merge(good, <<>>) \o Windows(p.src, p.lo, p.hi)
                  \o Gather(Tail(pieces), <<>>)

\* RecursiveCharacterTextSplitter.split_text: a text with no separator is
\* cut by characters, a text with blanks at its blanks.
SplitText(src, ws) ==
    IF Len(ws) <= 1 THEN Windows(src, 0, TextLen(ws))
    ELSE Gather(Pieces(src, ws, 0, TRUE), <<>>)

RECURSIVE SplitAll(_)
SplitAll(documents) ==
    IF documents = <<>> THEN <<>>
    ELSE SplitText(Head(documents).src, Head(documents).words)
         \o SplitAll(Tail(documents))

\* rag_app.py 48-73
split_documents(documents) == SplitAll(documents)

(* ------------------------- the on-disk store --------------------------- *)

\* streamlit_app.py 62-68: the selectbox's options; its default is the last.
Models == {"llama2", "mistral", "gemma", "llama3"}
DefaultModel == "llama3"

\* rag_app.py 88, streamlit_app.py 85: f"webpage_collection_{model}"
CollectionName(model) == <<"webpage_collection_", model>>
CollectionNames == {CollectionName(m) : m \in Models}

NoCollection == [exists |-> FALSE, items |-> <<>>]

\* ./chroma_db before anything ran: no directory, no collection.
EmptyDisk == [dir |-> FALSE, colls |-> [n \in CollectionNames |-> NoCollection]]

\* The names of the collections the directory holds.
Existing(d) == {n \in CollectionNames : d.colls[n].exists}

\* chromadb.PersistentClient(path="./chroma_db"): creates the directory.
PersistentClient(d) == [d EXCEPT !.dir = TRUE]

\* client.delete_collection(name) inside "try: ... except: pass".
delete_collection(d, name) == [d EXCEPT !.colls[name] = NoCollection]

\* Chroma.from_documents: get_or_create_collection(name), then add the
\* embedded documents to whatever the collection holds.
get_or_create_collection(d, name) ==
    IF d.colls[name].exists THEN d
    ELSE [d EXCEPT !.dir = TRUE, !.colls[name] = [exists |-> TRUE, items |-> <<>>]]

add_documents(d, name, splits) ==
    [d EXCEPT !.colls[name].items = @ \o splits]

(* -------------------------- create_vectorstore ------------------------- *)

\* A store handle (the Chroma object); id 0 is Python's None.
\* splits: the chunks it was built from, which its collection held then.
NoStore == [id |-> 0, model |-> "", collection |-> <<>>, splits |-> <<>>]
\* A pipeline handle (the runnable); src is the store its retriever reads.
NoChain == [id |-> 0, src |-> 0, model |-> ""]

\* How a call of create_vectorstore ends: returns; raises before the delete
\* (OllamaEmbeddings, PersistentClient); raises while embedding, inside
\* Chroma.from_documents, after the collection was created.
StoreEnvs == {"ok", "init", "embed"}

\* The function without lines 103-107.
create_vectorstore_no_delete(splits, model, env, d, id) ==
    LET name == CollectionName(model)
        created == get_or_create_collection(PersistentClient(d), name)
    IN  CASE env = "init" -> [disk |-> d, result |-> Raised, removed |-> {}]
          [] env = "embed" -> [disk |-> created, result |-> Raised, removed |-> {}]
          [] OTHER ->
               [disk |-> add_documents(created, name, splits),
                result |-> Returned([id |-> id, model |-> model,
                                     collection |-> name, splits |-> splits]),
                removed |-> {}]

\* rag_app.py 75-118
create_vectorstore(splits, model, env, d, id) ==
    LET name == CollectionName(model)
        client == PersistentClient(d)
        deleted == delete_collection(client, name)
        created == get_or_create_collection(deleted, name)
        removed == Existing(client) \ Existing(deleted)
    IN  CASE env = "init" -> [disk |-> d, result |-> Raised, removed |-> {}]
          [] env = "embed" -> [disk |-> created, result |-> Raised, removed |-> removed]
          [] OTHER ->
               [disk |-> add_documents(created, name, splits),
                result |-> Returned([id |-> id, model |-> model,
                                     collection |-> name, splits |-> splits]),
                removed |-> removed]

(* ---------------------------- setup_rag_chain -------------------------- *)

\* hub.pull and the Ollama constructor may raise.
ChainEnvs == {"ok", "raise"}

\* rag_app.py 120-148
setup_rag_chain(vectorstore, model, env, id) ==
    IF env = "raise" THEN Raised
    ELSE Returned([id |-> id, src |-> vectorstore.id, model |-> model])

\* rag_chain.invoke(question): retrieval and generation, either may raise;
\* on None it is an AttributeError.
AnswerEnvs == {"ok", "raise"}

invoke(rag_chain, question, env) ==
    IF rag_chain = NoChain \/ env = "raise" THEN Raised
    ELSE Returned(<<"answer">>)

(* ------------------------------- state --------------------------------- *)

VARIABLES
    procs,  \* the driver processes that run: "console", "ui"
    disk,   \* the ./chroma_db directory they share
    made,   \* how many store and pipeline handles were constructed so far
    con,    \* rag_app.main: its position and its locals
    ss,     \* streamlit_app.main: st.session_state
    wid,    \* the values of the UI's input widgets, as the browser holds them
    scr,    \* what the last script run rendered: what the user can act on
    last    \* the handler that ran last: its input, the calls it made, its outcome

vars == <<procs, disk, made, con, ss, wid, scr, last>>

NoLoad == [called |-> FALSE, url |-> <<>>, env |-> "none", result |-> Returned(<<>>)]

\* The record of a handler that did nothing yet.
Quiet(proc, op, input) ==
    [proc |-> proc, op |-> op, input |-> input, branches |-> <<>>, calls |-> <<>>,
     load |-> NoLoad, removed |-> {}, answer |-> "none", aborted |-> FALSE]

Called(log, name) == [log EXCEPT !.calls = Append(@, name)]
Took(log, branch) == [log EXCEPT !.branches = Append(@, branch)]

(* ------------------------- console: rag_app.main ----------------------- *)

\* rag_app.py 172-177, before the loop.
ConsoleInit(model) ==
    [pc |-> "loop", model |-> model, vectorstore |-> NoStore, rag_chain |-> NoChain]

\* An exception that is caught: the loop goes on.
Handled(c) == c

\* rag_app.py 150-207: an exception no try encloses leaves main; the
\* process ends with a traceback.
Uncaught(c) == [c EXCEPT !.pc = "fault"]

\* rag_app.py 187-192: a url that is not "quit".  An exception leaving
\* create_vectorstore or setup_rag_chain is caught nowhere: the process ends.
ConsoleLoad(c, d, mk, log0, url, lenv, senv, cenv) ==
    LET r == load_webpage(url, lenv)
        log1 == [Called(log0, "load_webpage") EXCEPT
                    !.load = [called |-> TRUE, url |-> url, env |-> lenv, result |-> r]]
    IN  IF r.raised
        THEN [con |-> Uncaught(c), disk |-> d, made |-> mk,
              log |-> [log1 EXCEPT !.aborted = TRUE]]
        ELSE IF ~HasDocuments(r.value)
        THEN [con |-> c, disk |-> d, made |-> mk, log |-> log1]
        ELSE
          LET splits == split_documents(r.value)
              cv == create_vectorstore(splits, c.model, senv, d, mk.stores + 1)
              log2 == [Called(Called(log1, "split_documents"), "create_vectorstore")
                          EXCEPT !.removed = cv.removed]
          IN  IF cv.result.raised
              THEN [con |-> Uncaught(c), disk |-> cv.disk, made |-> mk,
                    log |-> [log2 EXCEPT !.aborted = TRUE]]
              ELSE
                LET vs == cv.result.value
                    mk1 == [mk EXCEPT !.stores = @ + 1]
                    ch == setup_rag_chain(vs, c.model, cenv, mk.chains + 1)
                    log3 == Called(log2, "setup_rag_chain")
                IN  IF ch.raised
                    THEN [con |-> Uncaught([c EXCEPT !.vectorstore = vs]),
                          disk |-> cv.disk, made |-> mk1,
                          log |-> [log3 EXCEPT !.aborted = TRUE]]
                    ELSE [con |-> [c EXCEPT !.vectorstore = vs, !.rag_chain = ch.value],
                          disk |-> cv.disk, made |-> [mk1 EXCEPT !.chains = @ + 1],
                          log |-> log3]

\* The answer step with no try around it.
ConsoleAnswerUncaught(c, log0, question, env) ==
    LET a == invoke(c.rag_chain, question, env)
        log1 == Called(log0, "invoke")
    IN  IF a.raised
        THEN [con |-> [c EXCEPT !.pc = "fault"],
              log |-> [log1 EXCEPT !.answer = "error", !.aborted = TRUE]]
        ELSE [con |-> c, log |-> [log1 EXCEPT !.answer = "shown"]]

\* rag_app.py 203-207
ConsoleAnswer(c, log0, question, env) ==
    LET a == invoke(c.rag_chain, question, env)
        log1 == Called(log0, "invoke")
    IN  [con |-> c,
         log |-> [log1 EXCEPT !.answer = IF a.raised THEN "error" ELSE "shown"]]

\* rag_app.py 199-201
ConsoleNew(c) == [c EXCEPT !.vectorstore = NoStore]

\* rag_app.py 180-192: one turn of the loop at the URL prompt.
ConsoleUrlPrompt ==
    /\ "console" \in procs
    /\ con.pc = "loop"
    /\ con.vectorstore = NoStore
    /\ \E raw \in ConsoleInputs :
         LET url == Strip(raw) IN
           \/ /\ IsQuit(url)
              /\ con' = [con EXCEPT !.pc = "exited"]
              /\ last' = Quiet("console", "quit", raw)
              /\ UNCHANGED <<disk, made>>
           \/ /\ ~IsQuit(url)
              /\ \E lenv \in LoadEnvs, senv \in StoreEnvs, cenv \in ChainEnvs :
                   \E res \in {ConsoleLoad(con, disk, made, Quiet("console", "load", raw),
                                            url, lenv, senv, cenv)} :
                       /\ res.made.stores <= MaxStores
                       /\ con' = res.con
                       /\ disk' = res.disk
                       /\ made' = res.made
                       /\ last' = res.log
    /\ UNCHANGED <<procs, ss, wid, scr>>

\* rag_app.py 193-207: one turn of the loop at the question prompt.
ConsoleQuestionPrompt ==
    /\ "console" \in procs
    /\ con.pc = "loop"
    /\ con.vectorstore # NoStore
    /\ \E raw \in ConsoleInputs :
         LET question == Strip(raw) IN
           \/ /\ IsQuit(question)
              /\ con' = [con EXCEPT !.pc = "exited"]
              /\ last' = Quiet("console", "quit", raw)
           \/ /\ ~IsQuit(question)
              /\ IsNew(question)
              /\ con' = ConsoleNew(con)
              /\ last' = Quiet("console", "new", raw)
           \/ /\ ~IsQuit(question)
              /\ ~IsNew(question)
              /\ \E env \in AnswerEnvs :
                   \E res \in {ConsoleAnswer(con, Quiet("console", "ask", raw),
                                              question, env)} :
                       /\ con' = res.con
                       /\ last' = res.log
    /\ UNCHANGED <<procs, disk, made, ss, wid, scr>>

(* ---------------------- UI: streamlit_app.main ------------------------- *)

\* streamlit_app.py 39-46: the session state of a new browser session.
SessionInit ==
    [vectorstore |-> NoStore, rag_chain |-> NoChain, current_url |-> <<>>,
     current_model |-> DefaultModel]

\* Model change that leaves the collection on disk.
ModelChangedKeepCollection(st, model) ==
    [st EXCEPT
        !.ss = [vectorstore |-> NoStore, rag_chain |-> NoChain,
                current_url |-> <<>>, current_model |-> model],
        !.log = Took(@, "model_change")]

\* Model change that keeps the handles.
ModelChangedKeepHandles(st, model) ==
    LET name == CollectionName(st.ss.current_model) IN
    [st EXCEPT
        !.disk = IF st.disk.dir THEN delete_collection(st.disk, name) ELSE st.disk,
        !.ss = [st.ss EXCEPT !.current_url = <<>>, !.current_model = model],
        !.log = Took(@, "model_change")]

\* streamlit_app.py 71-92: the model-change branch, up to its st.rerun().
ModelChanged(st, model) ==
    LET name == CollectionName(st.ss.current_model)
        after == IF st.disk.dir
                 THEN delete_collection(PersistentClient(st.disk), name)
                 ELSE st.disk
    IN  [st EXCEPT
            !.disk = after,
            !.ss = [vectorstore |-> NoStore, rag_chain |-> NoChain,
                    current_url |-> <<>>, current_model |-> model],
            !.log = [Took(IF st.disk.dir THEN Called(@, "delete_collection") ELSE @,
                          "model_change")
                        EXCEPT !.removed = @ \cup (Existing(st.disk) \ Existing(after))]]

\* Clear that leaves current_url as it is.
ClearedKeepUrl(st) ==
    [st EXCEPT
        !.ss = [@ EXCEPT !.vectorstore = NoStore, !.rag_chain = NoChain],
        !.log = Took(@, "clear")]

\* streamlit_app.py 166-168: the Clear button's branch, up to its st.rerun().
Cleared(st) ==
    [st EXCEPT
        !.ss = [@ EXCEPT !.vectorstore = NoStore, !.rag_chain = NoChain,
                         !.current_url = <<>>],
        !.log = Took(@, "clear")]

\* streamlit_app.py 137-146: the Load button's branch.  Session state is
\* assigned statement by statement; an exception leaving create_vectorstore
\* or setup_rag_chain ends the script run where it is.
UiLoad(st, url, model, env) ==
    LET r == load_webpage(url, env.load)
        log1 == [Called(Took(st.log, "load"), "load_webpage") EXCEPT
                    !.load = [called |-> TRUE, url |-> url, env |-> env.load,
                              result |-> r]]
    IN  IF r.raised
        THEN [st EXCEPT !.log = [log1 EXCEPT !.aborted = TRUE]]
        ELSE IF ~HasDocuments(r.value)
        THEN [st EXCEPT !.log = log1]
        ELSE
          LET splits == split_documents(r.value)
              cv == create_vectorstore(splits, model, env.store, st.disk,
                                       st.made.stores + 1)
              log2 == [Called(Called(log1, "split_documents"), "create_vectorstore")
                          EXCEPT !.removed = @ \cup cv.removed]
          IN  IF cv.result.raised
              THEN [st EXCEPT !.disk = cv.disk,
                              !.log = [log2 EXCEPT !.aborted = TRUE]]
              ELSE
                LET vs == cv.result.value
                    ch == setup_rag_chain(vs, model, env.chain, st.made.chains + 1)
                    log3 == Called(log2, "setup_rag_chain")
                IN  IF ch.raised
                    THEN [st EXCEPT !.disk = cv.disk,
                                    !.made.stores = @ + 1,
                                    !.ss.vectorstore = vs,
                                    !.log = [log3 EXCEPT !.aborted = TRUE]]
                    ELSE [st EXCEPT !.disk = cv.disk,
                                    !.made = [stores |-> @.stores + 1,
                                              chains |-> @.chains + 1],
                                    !.ss = [vectorstore |-> vs, rag_chain |-> ch.value,
                                            current_url |-> url,
                                            current_model |-> model],
                                    !.log = log3]

\* streamlit_app.py 156-162: the Get Answer button's branch.
UiAnswer(st, question, env) ==
    LET a == invoke(st.ss.rag_chain, question, env.answer) IN
        [st EXCEPT !.log = [Called(Took(@, "answer"), "invoke") EXCEPT
                               !.answer = IF a.raised THEN "error" ELSE "shown"]]

\* streamlit_app.py 10-169: one run of the script, with the reruns it asks
\* for.  w: the widget values the browser sent; trig: the button that was
\* clicked, if one was.  A button returns True only in the run its click
\* started, and only if that run renders it.
RECURSIVE main(_, _, _, _)
main(st, w, trig, env) ==
    LET model == w.model
        disabled == st.ss.vectorstore # NoStore
    IN  IF model # st.ss.current_model
        THEN main(ModelChanged(st, model), w, "rerun", env)
        ELSE
          LET url == w.url
              loadShown == url # <<>> /\ (url # st.ss.current_url
                                          \/ model # st.ss.current_model)
              s1 == IF loadShown /\ trig = "click_load"
                    THEN UiLoad(st, url, model, env) ELSE st
          IN  IF s1.log.aborted
              THEN [s1 EXCEPT
                      !.scr = [disabled |-> disabled, load |-> loadShown,
                               question |-> FALSE, answer |-> FALSE],
                      !.question = <<>>]
              ELSE
                LET shown == s1.ss.vectorstore # NoStore
                    question == IF shown THEN w.question ELSE <<>>
                    answerShown == shown /\ question # <<>>
                    s2 == IF answerShown /\ trig = "click_answer"
                          THEN UiAnswer(s1, question, env) ELSE s1
                IN  IF shown /\ trig = "click_clear"
                    THEN main(Cleared(s2), w, "rerun", env)
                    ELSE [s2 EXCEPT
                            !.scr = [disabled |-> disabled, load |-> loadShown,
                                     question |-> shown, answer |-> answerShown],
                            !.question = question]

NoScreen == [disabled |-> FALSE, load |-> FALSE, question |-> FALSE, answer |-> FALSE]

UiEnvs ==
    [load : LoadEnvs, store : StoreEnvs, chain : ChainEnvs, answer : AnswerEnvs]

\* The environment of a run that calls no library.
CalmEnv == [load |-> "none", store |-> "ok", chain |-> "ok", answer |-> "ok"]

\* The browser sends widget values w and trigger trig; the script runs.
UiRun(op, input, w, trig, env) ==
    \E res \in {main([ss |-> ss, disk |-> disk, made |-> made,
                       log |-> Quiet("ui", op, input), scr |-> NoScreen,
                       question |-> <<>>],
                      w, trig, env)} :
        /\ res.made.stores <= MaxStores
        /\ ss' = res.ss
        /\ disk' = res.disk
        /\ made' = res.made
        /\ scr' = res.scr
        /\ wid' = [w EXCEPT !.question = res.question]
        /\ last' = res.log
        /\ UNCHANGED <<procs, con>>

\* The user picks another model in the sidebar selectbox.
UiSelectModel ==
    /\ "ui" \in procs
    /\ ~scr.disabled
    /\ \E m \in Models \ {wid.model} :
         UiRun("select_model", <<m>>, [wid EXCEPT !.model = m], "none", CalmEnv)

\* The user changes the URL text field.
UiEditUrl ==
    /\ "ui" \in procs
    /\ \E u \in UrlValues \ {wid.url} :
         UiRun("edit_url", u, [wid EXCEPT !.url = u], "none", CalmEnv)

\* The user changes the question text field.
UiEditQuestion ==
    /\ "ui" \in procs
    /\ scr.question
    /\ \E q \in QuestionValues \ {wid.question} :
         UiRun("edit_question", q, [wid EXCEPT !.question = q], "none", CalmEnv)

\* The user clicks "Load Webpage".
UiClickLoad ==
    /\ "ui" \in procs
    /\ scr.load
    /\ \E env \in UiEnvs :
         /\ env.answer = "ok"
         /\ UiRun("click_load", wid.url, wid, "click_load", env)

\* The user clicks "Get Answer".
UiClickAnswer ==
    /\ "ui" \in procs
    /\ scr.answer
    /\ \E a \in AnswerEnvs :
         UiRun("click_answer", wid.question, wid, "click_answer",
               [CalmEnv EXCEPT !.answer = a])

\* The user clicks "Clear Current Webpage".
UiClickClear ==
    /\ "ui" \in procs
    /\ scr.question
    /\ UiRun("click_clear", <<>>, wid, "click_clear", CalmEnv)

(* --------------------------- specifications ---------------------------- *)

\* The models the console is started with (--model).
ConsoleModels == {DefaultModel, "mistral"}

InitCommon ==
    /\ disk = EmptyDisk
    /\ made = [stores |-> 0, chains |-> 0]
    /\ ss = SessionInit
    /\ wid = [model |-> DefaultModel, url |-> <<>>, question |-> <<>>]
    /\ scr = NoScreen
    /\ last = Quiet("none", "init", <<>>)

\* One session of one driver, over an empty store directory.
Init ==
    /\ InitCommon
    /\ \/ /\ procs = {"ui"}
          /\ con = ConsoleInit(DefaultModel)
       \/ /\ procs = {"console"}
          /\ \E m \in ConsoleModels : con = ConsoleInit(m)

Next ==
    \/ ConsoleUrlPrompt
    \/ ConsoleQuestionPrompt
    \/ UiSelectModel
    \/ UiEditUrl
    \/ UiEditQuestion
    \/ UiClickLoad
    \/ UiClickAnswer
    \/ UiClickClear

Spec == Init /\ [][Next]_vars

\* A console process and a UI session started over the same empty store
\* directory; their turns interleave.
InitShared ==
    /\ InitCommon
    /\ procs = {"console", "ui"}
    /\ \E m \in ConsoleModels : con = ConsoleInit(m)

\* The lines, values and library outcomes explored when both run: the page
\* fetch is the only call that fails, and two models are in use.
SharedInputs ==
    {CMD_QUIT, CMD_NEW, URL_A, URL_B, EMPTY, QUESTION, <<DefaultModel>>, <<"mistral">>}

SharedStep ==
    /\ last'.input \in SharedInputs
    /\ last'.load.env \in {"none", "fetch"}
    /\ ~last'.aborted
    /\ wid'.model \in ConsoleModels
    /\ made'.stores <= MaxSharedStores

NextShared ==
    \/ ConsoleUrlPrompt /\ SharedStep
    \/ ConsoleQuestionPrompt /\ SharedStep
    \/ UiSelectModel /\ SharedStep
    \/ UiEditUrl /\ SharedStep
    \/ UiEditQuestion /\ SharedStep
    \/ UiClickLoad /\ SharedStep
    \/ UiClickAnswer /\ SharedStep
    \/ UiClickClear /\ SharedStep

SpecShared == InitShared /\ [][NextShared]_vars

\* split_documents applied to one document, whatever its text.
WordLens == {300, 499, 500, 600, 1200}
Texts ==
    {<<>>} \cup {<<n>> : n \in 1..MaxTextLen}
           \cup UNION {[1..k -> WordLens] : k \in 2..MaxWords}

InitSplit ==
    /\ disk = EmptyDisk
    /\ made = [stores |-> 0, chains |-> 0]
    /\ ss = SessionInit
    /\ wid = [model |-> DefaultModel, url |-> <<>>, question |-> <<>>]
    /\ scr = NoScreen
    /\ con = ConsoleInit(DefaultModel)
    /\ procs = {"split"}
    /\ \E ws \in Texts : last = [proc |-> "split", op |-> "init", input |-> ws]

SplitCall ==
    /\ "split" \in procs
    /\ last.op = "init"
    /\ last' = [proc |-> "split", op |-> "split_documents", input |-> last.input,
                chunks |-> split_documents(<< Document("text", last.input) >>)]
    /\ UNCHANGED <<procs, disk, made, con, ss, wid, scr>>

NextSplit == SplitCall

SpecSplit == InitSplit /\ [][NextSplit]_vars

(* ------------------------------- claims -------------------------------- *)

\* The console is at a prompt (its loop neither exited nor died).
ConsoleLive == "console" \in procs /\ con.pc = "loop"
UiLive == "ui" \in procs

InSeq(x, seq) == \E i \in 1..Len(seq) : seq[i] = x

\* The handler that ran last called load_webpage and got an empty list.
EmptyLoad(l) == l.load.called /\ l.load.result = Returned(<<>>)

\* C1: in both drivers, no state between user interactions has the store
\* handle None while the pipeline handle is still there.
C1_NoPipelineWithoutStore ==
    /\ (ConsoleLive /\ con.vectorstore = NoStore) => con.rag_chain = NoChain
    /\ (UiLive /\ ss.vectorstore = NoStore) => ss.rag_chain = NoChain

\* C2: in both drivers, in every state between user interactions a store
\* handle comes with a pipeline handle derived from it (the direction of the
\* equivalence that paired creation is about; the converse is C1's).
C2_StoreHasItsPipeline ==
    /\ (ConsoleLive /\ con.vectorstore # NoStore) =>
           (con.rag_chain # NoChain /\ con.rag_chain.src = con.vectorstore.id)
    /\ (UiLive /\ ss.vectorstore # NoStore) =>
           (ss.rag_chain # NoChain /\ ss.rag_chain.src = ss.vectorstore.id)

\* C3 as stated: after every page load whose load_webpage returned an empty
\* list, in either driver, there is no store handle and a URL load, not a
\* question, is what is offered next.  (Stated for sessions in which every
\* store built got its pipeline, that is, in which setup_rag_chain never
\* raised.)
C3_EmptyLoadEndsWithNoPage ==
    (EmptyLoad(last) /\ made.stores = made.chains) =>
        /\ last.proc = "console" => con.vectorstore = NoStore
        /\ last.proc = "ui" => (ss.vectorstore = NoStore /\ ~scr.question)

\* C3 amended: a page load whose load_webpage returned an empty list calls
\* neither create_vectorstore nor setup_rag_chain, creates no handle and
\* leaves the store directory and the session as they were; so a session
\* that was NoPageLoaded (the console always is, at a load) remains
\* NoPageLoaded and is offered a URL load again, and a UI session that was
\* PageLoaded stays PageLoaded.
C3_EmptyLoadChangesNothing ==
    [][ EmptyLoad(last') =>
          /\ last'.calls = <<"load_webpage">>
          /\ ~last'.aborted
          /\ made' = made
          /\ disk' = disk
          /\ con' = con
          /\ ss' = ss
          /\ last'.proc = "console" => (con'.vectorstore = NoStore /\ con'.pc = "loop")
          /\ (last'.proc = "ui" /\ ss.vectorstore = NoStore) =>
                 (ss'.vectorstore = NoStore /\ ~scr'.question /\ scr'.load)
          /\ (last'.proc = "ui" /\ ss.vectorstore # NoStore) => scr'.question
      ]_vars

\* A load that failed while fetching, in a session with no page loaded.
C3_Witness ==
    /\ EmptyLoad(last)
    /\ last.load.env = "fetch"
    /\ (last.proc = "ui" => ss.vectorstore = NoStore)

\* Every handle the UI session holds was built for current_model.
HandlesMatchModel ==
    /\ ss.vectorstore # NoStore => ss.vectorstore.model = ss.current_model
    /\ ss.rag_chain # NoChain => ss.rag_chain.model = ss.current_model

\* C4: a UI run that starts with the selected model different from
\* current_model clears vectorstore, rag_chain and current_url together and
\* sets current_model to the selection, with no load and no question
\* processed in it; and no state holds a handle built for another model
\* than current_model.
C4_ModelChangeClearsTogether ==
    [][ /\ (last'.proc = "ui" /\ wid'.model # ss.current_model) =>
              /\ ss' = [vectorstore |-> NoStore, rag_chain |-> NoChain,
                        current_url |-> <<>>, current_model |-> wid'.model]
              /\ ~InSeq("load_webpage", last'.calls)
              /\ ~InSeq("create_vectorstore", last'.calls)
              /\ ~InSeq("invoke", last'.calls)
        /\ HandlesMatchModel'
      ]_vars

\* A model change made in a session that had built a store and a pipeline.
C4_Witness ==
    /\ last.op = "select_model"
    /\ last.branches = <<"model_change">>
    /\ last.removed # {}
    /\ made.chains >= 1
    /\ ss.current_model # DefaultModel

\* C5: when the pipeline invocation raises, in either driver, the exception
\* is caught: the handles, the current URL and the current model are
\* unchanged, the handler is not aborted and the driver goes on taking
\* questions (the console loop is still at its question prompt).
C5_AnswerFailureIsSoft ==
    [][ last'.answer = "error" =>
          /\ ~last'.aborted
          /\ con' = con
          /\ ss' = ss
          /\ disk' = disk
          /\ made' = made
          /\ last'.proc = "console" => (con'.pc = "loop" /\ con'.vectorstore # NoStore)
          /\ last'.proc = "ui" => (scr'.question /\ scr'.answer)
      ]_vars

\* An invocation raised in the console, on a pipeline that exists.
C5_Witness ==
    /\ last.answer = "error"
    /\ last.proc = "console"
    /\ con.rag_chain # NoChain

\* Lines that are 'quit' after trimming and lower-casing, and one that is not.
QuitLines == {CMD_QUIT, <<" ", "Q", "u", "i", "t", " ">>}
NotQuitLines == {<<"q", "u", "i", "t", "s">>, CMD_NEW, URL_A}

\* A turn of the console loop that ends it.
ConsoleQuits == (ConsoleUrlPrompt \/ ConsoleQuestionPrompt) /\ con'.pc = "exited"

\* C6: a console line that is 'quit' after trimming and lower-casing ends
\* the loop in that turn, at either prompt, with no call of the page loader,
\* the store builder or the pipeline; no other line ends it that way; and
\* wherever the loop is at a prompt, a quit line is accepted.
C6_QuitEndsTheLoop ==
    /\ [][ /\ (last'.proc = "console" /\ last'.input \in QuitLines) =>
                 /\ con' = [con EXCEPT !.pc = "exited"]
                 /\ last'.calls = <<>>
                 /\ disk' = disk
                 /\ made' = made
           /\ (last'.proc = "console" /\ last'.input \in NotQuitLines) =>
                 con'.pc # "exited"
         ]_vars
    /\ [](ConsoleLive => ENABLED ConsoleQuits)

\* 'quit' typed with capitals and blanks at the question prompt.
C6_Witness ==
    /\ last.op = "quit"
    /\ last.input = <<" ", "Q", "u", "i", "t", " ">>
    /\ con.pc = "exited"
    /\ con.vectorstore # NoStore

\* A page is loaded in the UI session: a store and the pipeline built on it.
UiPageLoaded ==
    /\ UiLive
    /\ ss.vectorstore # NoStore
    /\ ss.rag_chain # NoChain
    /\ ss.rag_chain.src = ss.vectorstore.id

\* C7: with a page loaded the model selector is disabled, so that no user
\* interaction made in a state with a page loaded changes current_model.
C7_ModelFixedWhileLoaded ==
    [][ UiPageLoaded => ss'.current_model = ss.current_model ]_vars

\* C8: in a single UI session over a store directory that started empty,
\* the directory holds at most one collection, the one named for
\* current_model; so after a change from model m to m' none named for m is
\* left.
C8_OnlyCurrentModelCollection ==
    procs = {"ui"} => Existing(disk) \subseteq {CollectionName(ss.current_model)}

\* A model change that found the old model's collection, then a load under
\* the new model.
C8_Witness ==
    /\ procs = {"ui"}
    /\ ss.current_model # DefaultModel
    /\ made.stores >= 2
    /\ Existing(disk) = {CollectionName(ss.current_model)}
    /\ disk.colls[CollectionName(ss.current_model)].items # <<>>

\* The store handle the last handler assigned.
BuiltStore == IF last.proc = "console" THEN con.vectorstore ELSE ss.vectorstore

\* C9: a page load that builds a store leaves in the model's collection
\* exactly the chunks of that load, whatever the collection held before; and
\* a step that neither builds a store nor changes the model ('new', Clear, a
\* failed load, a question, quit, an edit) leaves the directory as it is.
C9_RebuildHoldsOnlyLastLoad ==
    [][ /\ made'.stores = made.stores + 1 =>
              disk'.colls[BuiltStore'.collection] =
                  [exists |-> TRUE,
                   items |-> split_documents(last'.load.result.value)]
        /\ (~InSeq("create_vectorstore", last'.calls)
             /\ ~InSeq("model_change", last'.branches)) => disk' = disk
      ]_vars

\* A load that replaced the collection an earlier load had filled.
C9_Witness ==
    /\ made.stores >= 2
    /\ last.removed # {}
    /\ InSeq("setup_rag_chain", last.calls)
    /\ ~last.aborted
    /\ disk.colls[BuiltStore.collection].items = split_documents(last.load.result.value)

ConsolePageLoaded == ConsoleLive /\ con.vectorstore # NoStore

\* The collection a store handle names holds what the handle was built from.
Backed(d, vs) == d.colls[vs.collection] = [exists |-> TRUE, items |-> vs.splits]

\* C11: with a console and a UI session on one store directory, nothing
\* stops one process from deleting or replacing the collection behind the
\* other's live store handle: a store built by one for the collection the
\* other's handle names leaves that handle in place and the collection
\* holding the builder's chunks only, and a UI model switch away from the
\* console's model deletes the console's collection and leaves the console
\* PageLoaded.
C11_RaceNotPrevented ==
    [][ /\ ( /\ last'.proc = "ui"
             /\ made'.stores = made.stores + 1
             /\ ConsolePageLoaded
             /\ ss'.vectorstore.collection = con.vectorstore.collection ) =>
               /\ con' = con
               /\ Backed(disk', ss'.vectorstore)
        /\ ( /\ last'.proc = "ui"
             /\ InSeq("model_change", last'.branches)
             /\ ConsolePageLoaded
             /\ CollectionName(ss.current_model) = con.vectorstore.collection ) =>
               /\ con' = con
               /\ ~disk'.colls[con.vectorstore.collection].exists
        /\ ( /\ last'.proc = "console"
             /\ made'.stores = made.stores + 1
             /\ ss.vectorstore # NoStore
             /\ con'.vectorstore.collection = ss.vectorstore.collection ) =>
               /\ ss' = ss
               /\ scr' = scr
               /\ Backed(disk', con'.vectorstore)
      ]_vars

\* The console is PageLoaded on one page while its collection holds the
\* chunks of the other page, which the UI session loaded after it.
C11_Witness ==
    /\ ConsolePageLoaded
    /\ con.rag_chain.src = con.vectorstore.id
    /\ UiPageLoaded
    /\ ss.vectorstore.collection = con.vectorstore.collection
    /\ Backed(disk, ss.vectorstore)
    /\ ~Backed(disk, con.vectorstore)

Split == last.proc = "split" /\ last.op = "split_documents"
CeilDiv(a, b) == (a + b - 1) \div b
InOrder(chunks) ==
    \A i \in 1..Len(chunks) : \A j \in 1..Len(chunks) :
        i < j => chunks[i].lo < chunks[j].lo /\ chunks[i].hi <= chunks[j].hi

\* C12 as stated: a document of length L gives one chunk when L <= 1000 and
\* ceil((L - 200) / 800) chunks when L > 1000, whatever its text (stated
\* here for the non-empty texts).
C12_ChunkCountByLength ==
    (Split /\ TextLen(last.input) >= 1) =>
        Len(last.chunks) = IF TextLen(last.input) <= 1000 THEN 1
                           ELSE CeilDiv(TextLen(last.input) - 200, 800)

\* C12, amended: a non-empty text of L characters with no separator in it
\* gives one chunk, the whole text, when L <= 1000 and ceil((L - 200) / 800)
\* chunks of at most 1000 characters when L > 1000 (6 for L = 5000); the
\* chunks of any text are in document order, the first at offset 0 and the
\* last ending at L.
C12_ChunkCountWithoutSeparator ==
    Split =>
        /\ InOrder(last.chunks)
        /\ \A i \in 1..Len(last.chunks) :
              last.chunks[i].hi - last.chunks[i].lo <= 1000
        /\ last.input # <<>> =>
              /\ last.chunks[1].lo = 0
              /\ last.chunks[Len(last.chunks)].hi = TextLen(last.input)
        /\ Len(last.input) = 1 =>
              /\ TextLen(last.input) <= 1000 => Len(last.chunks) = 1
              /\ TextLen(last.input) > 1000 =>
                    Len(last.chunks) = CeilDiv(TextLen(last.input) - 200, 800)
              /\ \A i \in 1..(Len(last.chunks) - 1) :
                    last.chunks[i + 1].lo = last.chunks[i].hi - 200

C12_Witness ==
    /\ Split
    /\ last.input = <<5000>>
    /\ Len(last.chunks) = 6

\* The step called the store builder, or the pipeline setup, and got no
\* handle from it.
StoreFault == InSeq("create_vectorstore", last'.calls) /\ made'.stores = made.stores
ChainFault == InSeq("setup_rag_chain", last'.calls) /\ made'.chains = made.chains

\* C13: a fault raised by create_vectorstore or setup_rag_chain during a
\* page load is caught by neither driver.  In the console it ends the loop
\* as a fault, with no further prompt, whereas an empty load and a failed
\* answer leave the loop running; in the UI it ends the script run before
\* rag_chain and current_url are assigned and before the question section.
C13_BuildFaultsAreUncaught ==
    [][ /\ (last'.proc = "console" /\ (StoreFault \/ ChainFault)) =>
              /\ last'.aborted
              /\ con'.pc = "fault"
        /\ con.pc = "fault" => con' = con
        /\ (last'.proc = "console" /\ last'.op = "load" /\ EmptyLoad(last')) =>
              /\ ~last'.aborted
              /\ con'.pc = "loop"
        /\ (last'.proc = "console" /\ last'.answer = "error") =>
              /\ ~last'.aborted
              /\ con'.pc = "loop"
        /\ (last'.proc = "ui" /\ (StoreFault \/ ChainFault)) =>
              /\ last'.aborted
              /\ ~scr'.question
              /\ ss'.rag_chain = ss.rag_chain
              /\ ss'.current_url = ss.current_url
      ]_vars

C13_Witness ==
    /\ last.proc = "console"
    /\ InSeq("setup_rag_chain", last.calls)
    /\ last.aborted
    /\ con.pc = "fault"
    /\ con.vectorstore # NoStore
    /\ con.rag_chain = NoChain

\* C14: in the console every question is dispatched to a pipeline that is
\* there and was built from the store the loop holds at that moment, for
\* the loop's model; never to the pipeline of a store that 'new' discarded.
C14_InvokeUsesCurrentPipeline ==
    [][ (last'.proc = "console" /\ InSeq("invoke", last'.calls)) =>
            /\ con.vectorstore # NoStore
            /\ con.rag_chain # NoChain
            /\ con.rag_chain.src = con.vectorstore.id
            /\ con.rag_chain.model = con.model
            /\ con' = con
      ]_vars

\* A question answered on a store built after an earlier one was discarded.
C14_Witness ==
    /\ last.proc = "console"
    /\ InSeq("invoke", last.calls)
    /\ last.answer = "shown"
    /\ made.stores >= 2
    /\ con.vectorstore.id = made.stores
    /\ con.rag_chain.src = con.vectorstore.id

\* C15: in the UI the selected model equals current_model whenever a load
\* runs, so the load was offered because the URL differs and not because
\* the model does, the store and the pipeline it builds are built for
\* current_model and assigning current_model after it changes nothing; and
\* whenever vectorstore is non-None it was built for current_model.
C15_LoadUsesCurrentModel ==
    [][ /\ (last'.proc = "ui" /\ last'.load.called) =>
              /\ wid'.model = ss.current_model
              /\ wid'.url # ss.current_url
              /\ ~InSeq("model_change", last'.branches)
              /\ ss'.current_model = ss.current_model
              /\ made'.stores > made.stores =>
                    ss'.vectorstore.model = ss.current_model
              /\ made'.chains > made.chains =>
                    ss'.rag_chain.model = ss.current_model
        /\ (UiLive /\ ss'.vectorstore # NoStore) =>
              /\ ss'.vectorstore.model = ss'.current_model
              /\ ss'.vectorstore.collection = CollectionName(ss'.current_model)
              /\ wid'.model = ss'.current_model
      ]_vars

\* A page loaded after the model was changed.
C15_Witness ==
    /\ last.proc = "ui"
    /\ last.op = "click_load"
    /\ InSeq("setup_rag_chain", last.calls)
    /\ ~last.aborted
    /\ ss.current_model # DefaultModel
    /\ ss.vectorstore.model = ss.current_model
    /\ ss.rag_chain.model = ss.current_model

\* C16: in the UI a load of another URL, attempted while a page is loaded,
\* that gets an empty document list leaves vectorstore, rag_chain,
\* current_url and current_model as they were, and the store directory
\* too: the session stays on the page loaded before, with the question
\* section rendered in that same run.
C16_EmptyReloadKeepsPage ==
    [][ (last'.proc = "ui" /\ EmptyLoad(last') /\ ss.vectorstore # NoStore) =>
            /\ last'.load.url # ss.current_url
            /\ ss'.vectorstore = ss.vectorstore
            /\ ss'.rag_chain = ss.rag_chain
            /\ ss'.current_url = ss.current_url
            /\ ss'.current_model = ss.current_model
            /\ disk' = disk
            /\ made' = made
            /\ scr'.question
            /\ scr'.answer <=> wid'.question # <<>>
      ]_vars

\* A failed load of another URL in a session that has a page loaded.
C16_Witness ==
    /\ last.proc = "ui"
    /\ EmptyLoad(last)
    /\ UiPageLoaded
    /\ ss.current_url \in Fetchable
    /\ last.load.url # ss.current_url
    /\ scr.question

\* The step was a load that built both the store and the pipeline.
LoadSucceeded ==
    /\ last'.proc = "ui"
    /\ last'.load.called
    /\ made'.stores > made.stores
    /\ made'.chains > made.chains

=============================================================================
